---- MODULE Spec2Model ----
(***************************************************************************)
(* A model of the Emoseum AI gallery manager (GalleryManager over a        *)
(* MongoDB collection) and of the webhook service that pushes gallery      *)
(* updates to the Emoseum server.                                          *)
(*                                                                         *)
(* Python values are modelled as follows:                                  *)
(*   str      a TLA+ string ("" is the empty string)                       *)
(*   None     the string NoneValue, only where the code passes str | None  *)
(*   list     a sequence (<<>> is the empty list)                          *)
(*   dict     a function whose domain is the set of keys (<<>> is {})      *)
(*   float    an integer number of tenths                                  *)
(***************************************************************************)
EXTENDS Integers, Sequences, FiniteSets, TLC

VARIABLES
    gallery_items,  \* the gallery_items collection: documents in insertion order
    now,            \* the latest reading of the wall clock, in seconds
    tasks,          \* the detached asyncio tasks, in the order they were created
    posts,          \* the POSTs issued to the webhook endpoint, in issue order
    last,           \* the last call: its operation, arguments and return value
    loop,           \* whether the manager's callers run inside a running event loop
    service,        \* whether the manager's callers pass it the webhook service
    calls,          \* the number of manager calls made so far
    log             \* the level of the last line the webhook service logged

vars == <<gallery_items, now, tasks, posts, last, loop, service, calls, log>>

\* ---------------------------------------------------------------- bounds
MaxItems == 2
MaxClock == 1
MaxTasks == 2
MaxCalls == 3
MaxSeconds == 5
MaxLimit == 3
MaxOffset == 2
MaxVadLen == 4

\* ---------------------------------------------------------------- values
NoneValue == "<None>"

UserIds == {"u1", "u2"}
CreateArgs ==
    {[user_id |-> "u1", emotion_keywords |-> <<"calm", "tired">>,
      vad_scores |-> <<2, -1, 5>>, diary_id |-> "d1"],
     [user_id |-> "u1", emotion_keywords |-> <<>>,
      vad_scores |-> <<0, 0, 0>>, diary_id |-> "d2"],
     [user_id |-> "u2", emotion_keywords |-> <<"calm">>,
      vad_scores |-> <<2, -1, 5>>, diary_id |-> NoneValue]}
TitleArgs == {[artwork_title |-> "", guided_question |-> ""],
              [artwork_title |-> "Quiet Morning", guided_question |-> "What made this moment calm?"],
              [artwork_title |-> "Dusk", guided_question |-> ""]}
DocentMessages ==
    {<<>>,
     [content |-> "c"],
     [content |-> "c", metadata |-> <<>>],
     [content |-> "c", metadata |-> [token_usage |-> <<>>]],
     [content |-> "c", metadata |-> [token_usage |-> [total_tokens |-> 42]]]}

\* ---------------------------------------------------------------- python helpers
\* dict.get(key, default)
DictGet(d, key, default) == IF key \in DOMAIN d THEN d[key] ELSE default

\* bool(str), bool(list), bool(dict)
BoolStr(s) == s # ""
BoolList(l) == Len(l) > 0
BoolDict(d) == DOMAIN d # {}

\* datetime.now().strftime("%Y%m%d_%H%M%S"): the clock to the second
Strftime(t) == t

\* ---------------------------------------------------------------- GalleryItem
\* GalleryItem.__init__, called with the keyword arguments kw: docent_message
\* and message_reactions default to empty containers; the GPT flags and method
\* tags keep their defaults.
GalleryItem(kw) ==
    [item_id |-> kw.item_id,
     user_id |-> kw.user_id,
     diary_text |-> kw.diary_text,
     emotion_keywords |-> kw.emotion_keywords,
     vad_scores |-> kw.vad_scores,
     reflection_prompt |-> kw.reflection_prompt,
     reflection_image_path |-> kw.reflection_image_path,
     artwork_title |-> kw.artwork_title,
     docent_message |-> IF BoolDict(kw.docent_message) THEN kw.docent_message ELSE <<>>,
     message_reactions |-> IF BoolList(kw.message_reactions) THEN kw.message_reactions ELSE <<>>,
     guided_question |-> kw.guided_question,
     created_date |-> kw.created_date,
     coping_style |-> kw.coping_style,
     diary_id |-> kw.diary_id,
     gpt_prompt_tokens |-> kw.gpt_prompt_tokens,
     gpt_docent_tokens |-> kw.gpt_docent_tokens]

\* GalleryItem.get_completion_status. Every docent_message of the model is a
\* dict, so isinstance(self.docent_message, dict) is true.
get_completion_status(self) ==
    [reflection |-> BoolList(self.reflection_image_path),
     artwork_title |-> BoolStr(self.artwork_title),
     docent_message |-> BoolDict(self.docent_message),
     completed |-> BoolDict(self.docent_message)]

\* get_next_step asking for the title before the reflection image
get_next_step_title_first(self) ==
    LET status == get_completion_status(self) IN
    IF ~status.artwork_title THEN "artwork_title"
    ELSE IF ~status.reflection THEN "reflection"
    ELSE IF ~status.docent_message THEN "docent_message"
    ELSE "completed"

\* GalleryItem.get_next_step
get_next_step(self) ==
    LET status == get_completion_status(self) IN
    IF ~status.reflection THEN "reflection"
    ELSE IF ~status.artwork_title THEN "artwork_title"
    ELSE IF ~status.docent_message THEN "docent_message"
    ELSE "completed"

\* ---------------------------------------------------------------- the collection
\* str(ObjectId): the primary key as callers see it
ObjectIdStr(n) == <<"oid", n>>

\* f"{user_id}-{timestamp}" (an identifier of this shape never parses as an ObjectId)
ItemIdOf(user_id, timestamp) == <<user_id, timestamp>>

\* str(images_dir / "reflection" / f"{user_id}_{timestamp}_reflection.png")
ReflectionPath(user_id, timestamp) == <<"reflection", user_id, timestamp>>

\* find_one({"item_id": item_id}): the position of the first match, 0 for none
FindByItemId(coll, item_id) ==
    IF \E i \in DOMAIN coll : coll[i].item_id = item_id
    THEN CHOOSE i \in DOMAIN coll :
            /\ coll[i].item_id = item_id
            /\ \A j \in DOMAIN coll : coll[j].item_id = item_id => i <= j
    ELSE 0

\* a $set that leaves guided_question as it was
SetFieldsSkipQuestion(doc, fields) ==
    [k \in DOMAIN doc |->
        IF k \in DOMAIN fields /\ k # "guided_question" THEN fields[k] ELSE doc[k]]

\* the document after {"$set": fields}
SetFields(doc, fields) ==
    [k \in DOMAIN doc |-> IF k \in DOMAIN fields THEN fields[k] ELSE doc[k]]

\* update_one reporting the matched count as modified_count
update_one_matched(coll, item_id, fields) ==
    LET i == FindByItemId(coll, item_id) IN
    IF i = 0 THEN [coll |-> coll, modified_count |-> 0]
    ELSE [coll |-> [coll EXCEPT ![i] = SetFields(coll[i], fields)],
          modified_count |-> 1]

\* update_one({"item_id": item_id}, {"$set": fields}): the collection afterwards
\* and modified_count, which counts a matched document only if the update
\* changed it
update_one(coll, item_id, fields) ==
    LET i == FindByItemId(coll, item_id) IN
    IF i = 0 THEN [coll |-> coll, modified_count |-> 0]
    ELSE LET doc == SetFields(coll[i], fields) IN
         [coll |-> [coll EXCEPT ![i] = doc],
          modified_count |-> IF doc = coll[i] THEN 0 ELSE 1]

\* _doc_to_gallery_item: the object's item_id is the document's primary key,
\* not its item_id field
doc_to_gallery_item(doc) ==
    GalleryItem([item_id |-> ObjectIdStr(doc._id),
                 user_id |-> doc.user_id,
                 diary_text |-> doc.diary_text,
                 emotion_keywords |-> doc.emotion_keywords,
                 vad_scores |-> doc.vad_scores,
                 reflection_prompt |-> doc.reflection_prompt,
                 reflection_image_path |-> doc.reflection_image_path,
                 artwork_title |-> doc.artwork_title,
                 docent_message |-> doc.docent_message,
                 message_reactions |-> doc.message_reactions,
                 guided_question |-> doc.guided_question,
                 created_date |-> doc.created_date,
                 coping_style |-> doc.coping_style,
                 diary_id |-> doc.diary_id,
                 gpt_prompt_tokens |-> doc.gpt_prompt_tokens,
                 gpt_docent_tokens |-> doc.gpt_docent_tokens])

\* ---------------------------------------------------------------- the webhook service
\* A payload that carries every field it was given, empty or not
WebhookPayloadAll(diary_id, emotion_keywords, artwork_title, guided_question, vad_scores, user_id, t) ==
    [diary_id |-> diary_id, updated_at |-> t, keywords |-> emotion_keywords,
     title |-> artwork_title, guided_question |-> guided_question,
     vad_scores |-> vad_scores]

\* The payload send_gallery_item_update builds: diary_id and updated_at always,
\* every other field only when it is truthy.
WebhookPayload(diary_id, emotion_keywords, artwork_title, guided_question, vad_scores, user_id, t) ==
    [diary_id |-> diary_id, updated_at |-> t]
    @@ (IF BoolList(emotion_keywords) THEN [keywords |-> emotion_keywords] ELSE <<>>)
    @@ (IF BoolStr(artwork_title) THEN [title |-> artwork_title] ELSE <<>>)
    @@ (IF BoolStr(guided_question) THEN [guided_question |-> guided_question] ELSE <<>>)
    @@ (IF BoolList(vad_scores) THEN [vad_scores |-> vad_scores] ELSE <<>>)
    @@ (IF user_id # NoneValue /\ BoolStr(user_id) THEN [user_id |-> user_id] ELSE <<>>)

\* What the endpoint can answer, and the result send_gallery_item_update returns
Outcomes == {"200_json", "200_undecodable", "500", "timeout", "transport_error"}

\* The level of the line send_gallery_item_update logs for an outcome
LogLevel(outcome) == IF outcome = "200_json" THEN "info" ELSE "error"

\* A result that goes by the status code alone
WebhookResultByStatus(outcome) ==
    IF outcome \in {"200_json", "200_undecodable"}
    THEN [success |-> TRUE, message |-> "Gallery item updated successfully",
          data |-> "json"]
    ELSE [success |-> FALSE, error |-> outcome, retry_recommended |-> TRUE]

\* The dict returned: only a failure carries retry_recommended. A body that
\* does not decode, like a timeout or a transport error, ends in an except
\* clause.
WebhookResult(outcome) ==
    IF outcome = "200_json"
    THEN [success |-> TRUE, message |-> "Gallery item updated successfully",
          data |-> "json"]
    ELSE [success |-> FALSE, error |-> outcome, retry_recommended |-> TRUE]

\* ---------------------------------------------------------------- the manager
\* An inserted document that already carries a title
ItemDocTitled(oid, user_id, emotion_keywords, vad_scores, diary_id, t) ==
    [_id |-> oid,
     item_id |-> ItemIdOf(user_id, Strftime(t)),
     user_id |-> user_id,
     diary_text |-> "diary",
     emotion_keywords |-> emotion_keywords,
     vad_scores |-> vad_scores,
     reflection_prompt |-> "prompt",
     reflection_image_path |-> ReflectionPath(user_id, Strftime(t)),
     artwork_title |-> "Untitled",
     docent_message |-> <<>>,
     message_reactions |-> <<>>,
     guided_question |-> "",
     created_date |-> t,
     coping_style |-> "balanced",
     diary_id |-> diary_id,
     gpt_prompt_tokens |-> 0,
     gpt_docent_tokens |-> 0]

\* The document create_gallery_item inserts
ItemDoc(oid, user_id, emotion_keywords, vad_scores, diary_id, t) ==
    [_id |-> oid,
     item_id |-> ItemIdOf(user_id, Strftime(t)),
     user_id |-> user_id,
     diary_text |-> "diary",
     emotion_keywords |-> emotion_keywords,
     vad_scores |-> vad_scores,
     reflection_prompt |-> "prompt",
     reflection_image_path |-> ReflectionPath(user_id, Strftime(t)),
     artwork_title |-> "",
     docent_message |-> <<>>,
     message_reactions |-> <<>>,
     guided_question |-> "",
     created_date |-> t,
     coping_style |-> "balanced",
     diary_id |-> diary_id,
     gpt_prompt_tokens |-> 0,
     gpt_docent_tokens |-> 0]

\* asyncio.create_task(coro): the new task is appended to the loop's tasks
CreateTask(ts, task) == Append(ts, task)

\* A create_gallery_item over a collection without the unique item_id index
create_gallery_item_no_index(user_id, emotion_keywords, vad_scores, diary_id, svc, t) ==
    LET doc == ItemDoc(Len(gallery_items) + 1, user_id, emotion_keywords,
                       vad_scores, diary_id, t)
        schedule == svc /\ diary_id # NoneValue /\ BoolStr(diary_id)
    IN
    /\ Len(gallery_items) < MaxItems
    /\ schedule /\ loop => Len(tasks) < MaxTasks
    /\ gallery_items' = Append(gallery_items, doc)
    /\ tasks' = IF schedule /\ loop
                THEN CreateTask(tasks, [kind |-> "emotion", status |-> "pending",
                                        diary_id |-> diary_id,
                                        emotion_keywords |-> emotion_keywords,
                                        vad_scores |-> vad_scores])
                ELSE tasks
    /\ last' = [op |-> "create_gallery_item", user_id |-> user_id,
                emotion_keywords |-> emotion_keywords, vad_scores |-> vad_scores,
                diary_id |-> diary_id, service |-> svc,
                raised |-> schedule /\ ~loop,
                ret |-> doc.item_id]
    /\ now' = t
    /\ UNCHANGED posts

\* create_gallery_item, called with the service argument svc when the clock
\* reads t. insert_one raises on the unique item_id index; without a running
\* event loop create_task raises after the insert. Either exception is logged
\* and re-raised.
create_gallery_item(user_id, emotion_keywords, vad_scores, diary_id, svc, t) ==
    LET doc == ItemDoc(Len(gallery_items) + 1, user_id, emotion_keywords,
                       vad_scores, diary_id, t)
        duplicate == FindByItemId(gallery_items, doc.item_id) # 0
        schedule == ~duplicate /\ svc /\ diary_id # NoneValue /\ BoolStr(diary_id)
    IN
    /\ Len(gallery_items) < MaxItems
    /\ schedule /\ loop => Len(tasks) < MaxTasks
    /\ gallery_items' = IF duplicate THEN gallery_items ELSE Append(gallery_items, doc)
    /\ tasks' = IF schedule /\ loop
                THEN CreateTask(tasks, [kind |-> "emotion", status |-> "pending",
                                        diary_id |-> diary_id,
                                        emotion_keywords |-> emotion_keywords,
                                        vad_scores |-> vad_scores])
                ELSE tasks
    /\ last' = [op |-> "create_gallery_item", user_id |-> user_id,
                emotion_keywords |-> emotion_keywords, vad_scores |-> vad_scores,
                diary_id |-> diary_id, service |-> svc,
                raised |-> duplicate \/ (schedule /\ ~loop),
                ret |-> doc.item_id]
    /\ now' = t
    /\ UNCHANGED posts

\* A complete_artwork_title that starts _update_artwork_title_async on success
complete_artwork_title_synced(item_id, artwork_title, guided_question, svc) ==
    LET result == update_one(gallery_items, item_id,
                             [artwork_title |-> artwork_title,
                              guided_question |-> guided_question])
        success == result.modified_count > 0
    IN
    /\ gallery_items' = result.coll
    /\ tasks' = IF success /\ svc /\ loop
                THEN CreateTask(tasks, [kind |-> "title", status |-> "pending",
                                        item_id |-> item_id,
                                        artwork_title |-> artwork_title])
                ELSE tasks
    /\ last' = [op |-> "complete_artwork_title", item_id |-> item_id,
                artwork_title |-> artwork_title,
                guided_question |-> guided_question, service |-> svc,
                ret |-> success]
    /\ UNCHANGED <<now, posts>>

\* A complete_artwork_title that leaves a document with a docent message alone
complete_artwork_title_guarded(item_id, artwork_title, guided_question, svc) ==
    LET k == FindByItemId(gallery_items, item_id)
        reviewed == k # 0 /\ BoolDict(gallery_items[k].docent_message)
        result == update_one(gallery_items, item_id,
                             [artwork_title |-> artwork_title,
                              guided_question |-> guided_question])
        success == ~reviewed /\ result.modified_count > 0
    IN
    /\ gallery_items' = IF reviewed THEN gallery_items ELSE result.coll
    /\ last' = [op |-> "complete_artwork_title", item_id |-> item_id,
                artwork_title |-> artwork_title,
                guided_question |-> guided_question, service |-> svc,
                ret |-> success]
    /\ UNCHANGED <<now, tasks, posts>>

\* complete_artwork_title: one update_one setting both fields; success is
\* modified_count > 0. The service argument svc is never used.
complete_artwork_title(item_id, artwork_title, guided_question, svc) ==
    LET result == update_one(gallery_items, item_id,
                             [artwork_title |-> artwork_title,
                              guided_question |-> guided_question])
        success == result.modified_count > 0
    IN
    /\ gallery_items' = result.coll
    /\ last' = [op |-> "complete_artwork_title", item_id |-> item_id,
                artwork_title |-> artwork_title,
                guided_question |-> guided_question, service |-> svc,
                ret |-> success]
    /\ UNCHANGED <<now, tasks, posts>>

\* total_tokens read from metadata itself instead of metadata.token_usage
DocentTokensFromMetadata(docent_message) ==
    DictGet(DictGet(docent_message, "metadata", <<>>), "total_tokens", 0)

\* metadata.get("token_usage", {}).get("total_tokens", 0) of
\* docent_message.get("metadata", {})
DocentTokens(docent_message) ==
    LET metadata == DictGet(docent_message, "metadata", <<>>) IN
    DictGet(DictGet(metadata, "token_usage", <<>>), "total_tokens", 0)

\* add_docent_message: one update_one setting the message and its token count;
\* on success, with a service, a detached task is created. Without a running
\* event loop create_task raises, and the except clause returns False after the
\* update was applied.
add_docent_message(item_id, docent_message, svc) ==
    LET gpt_docent_tokens == DocentTokens(docent_message)
        result == update_one(gallery_items, item_id,
                             [docent_message |-> docent_message,
                              gpt_docent_tokens |-> gpt_docent_tokens])
        success == result.modified_count > 0
        schedule == success /\ svc
    IN
    /\ schedule /\ loop => Len(tasks) < MaxTasks
    /\ gallery_items' = result.coll
    /\ tasks' = IF schedule /\ loop
                THEN CreateTask(tasks, [kind |-> "docent", status |-> "pending",
                                        item_id |-> item_id])
                ELSE tasks
    /\ last' = [op |-> "add_docent_message", item_id |-> item_id,
                docent_message |-> docent_message, service |-> svc,
                ret |-> success /\ ~(schedule /\ ~loop)]
    /\ UNCHANGED <<now, posts>>

\* ObjectId(item_id) parses only the string form of a primary key
IsObjectIdStr(item_id) == item_id[1] = "oid"

\* A get_gallery_item that stops at the primary key
get_gallery_item_by_key(item_id) ==
    LET byKey == {i \in DOMAIN gallery_items :
                    IsObjectIdStr(item_id) /\ ObjectIdStr(gallery_items[i]._id) = item_id}
        i == IF byKey # {} THEN CHOOSE k \in byKey : TRUE ELSE 0
    IN
    /\ last' = [op |-> "get_gallery_item", item_id |-> item_id, found |-> i # 0,
                raised |-> FALSE,
                ret |-> IF i # 0 THEN doc_to_gallery_item(gallery_items[i]) ELSE <<>>]
    /\ UNCHANGED <<gallery_items, now, tasks, posts>>

\* get_gallery_item: by primary key first (an identifier that does not parse
\* as an ObjectId raises inside the inner try and is passed over), then by the
\* item_id field; None (here <<>>) when neither finds a document. The outer
\* except returns None as well, so nothing is raised.
get_gallery_item(item_id) ==
    LET byKey == {i \in DOMAIN gallery_items :
                    IsObjectIdStr(item_id) /\ ObjectIdStr(gallery_items[i]._id) = item_id}
        i == IF byKey # {} THEN CHOOSE k \in byKey : TRUE
             ELSE FindByItemId(gallery_items, item_id)
    IN
    /\ last' = [op |-> "get_gallery_item", item_id |-> item_id, found |-> i # 0,
                raised |-> FALSE,
                ret |-> IF i # 0 THEN doc_to_gallery_item(gallery_items[i]) ELSE <<>>]
    /\ UNCHANGED <<gallery_items, now, tasks, posts>>

\* An optional date string: NoDate for None, DateStr(t) for the ISO string of
\* second t. ISO strings of one shape compare as the times they write.
NoDate == <<>>
DateStr(t) == <<t>>

\* The documents (positions in coll) the query of get_user_gallery matches:
\* those of user_id, with created_date from date_from on and up to date_to
\* when these are given
FindUserGallery(coll, user_id, date_from, date_to) ==
    {i \in DOMAIN coll :
        /\ coll[i].user_id = user_id
        /\ date_from # NoDate => coll[i].created_date >= date_from[1]
        /\ date_to # NoDate => coll[i].created_date <= date_to[1]}

\* cursor.sort("created_date", 1): oldest first
SortCreatedDateAsc(coll, S) ==
    LET sorted[T \in SUBSET S] ==
            IF T = {} THEN <<>>
            ELSE LET i == CHOOSE i \in T :
                            \A j \in T :
                                \/ coll[j].created_date > coll[i].created_date
                                \/ (coll[j].created_date = coll[i].created_date /\ i <= j)
                 IN <<i>> \o sorted[T \ {i}]
    IN sorted[S]

\* cursor.sort("created_date", -1): newest first. One user's documents never
\* share a created_date (their item_id, unique, is the user and the second).
SortCreatedDateDesc(coll, S) ==
    LET sorted[T \in SUBSET S] ==
            IF T = {} THEN <<>>
            ELSE LET i == CHOOSE i \in T :
                            \A j \in T :
                                \/ coll[j].created_date < coll[i].created_date
                                \/ (coll[j].created_date = coll[i].created_date /\ i <= j)
                 IN <<i>> \o sorted[T \ {i}]
    IN sorted[S]

\* cursor.skip(offset).limit(limit), for limit >= 1
SkipLimit(seq, offset, limit) ==
    SubSeq(seq, offset + 1, IF Len(seq) < offset + limit THEN Len(seq) ELSE offset + limit)

\* get_user_gallery: find, sort by created_date descending, skip, limit, and
\* convert each document
get_user_gallery(user_id, limit, offset, date_from, date_to) ==
    LET found == FindUserGallery(gallery_items, user_id, date_from, date_to)
        cursor == SkipLimit(SortCreatedDateDesc(gallery_items, found), offset, limit)
    IN
    /\ last' = [op |-> "get_user_gallery", user_id |-> user_id, limit |-> limit,
                offset |-> offset, date_from |-> date_from, date_to |-> date_to,
                ret |-> [n \in DOMAIN cursor |->
                            doc_to_gallery_item(gallery_items[cursor[n]])]]
    /\ UNCHANGED <<gallery_items, now, tasks, posts>>

\* ---------------------------------------------------------------- the detached tasks
\* A POST that leaves the title out
PostWithoutTitle(i, diary_id, emotion_keywords, artwork_title, guided_question, vad_scores) ==
    [task |-> i,
     args |-> [diary_id |-> diary_id, emotion_keywords |-> emotion_keywords,
               artwork_title |-> "", guided_question |-> guided_question,
               vad_scores |-> vad_scores],
     payload |-> WebhookPayload(diary_id, emotion_keywords, "",
                                guided_question, vad_scores, NoneValue, now)]

\* The POST a task issues: the arguments it calls send_gallery_item_update
\* with (user_id is never passed) and the payload built from them
Post(i, diary_id, emotion_keywords, artwork_title, guided_question, vad_scores) ==
    [task |-> i,
     args |-> [diary_id |-> diary_id, emotion_keywords |-> emotion_keywords,
               artwork_title |-> artwork_title, guided_question |-> guided_question,
               vad_scores |-> vad_scores],
     payload |-> WebhookPayload(diary_id, emotion_keywords, artwork_title,
                                guided_question, vad_scores, NoneValue, now)]

\* _update_emotion_data_async up to its await: the POST carries the arguments
\* given to create_gallery_item (artwork_title and guided_question are None)
update_emotion_data_async(i) ==
    /\ tasks[i].kind = "emotion"
    /\ tasks[i].status = "pending"
    /\ posts' = Append(posts, Post(i, tasks[i].diary_id, tasks[i].emotion_keywords,
                                   "", "", tasks[i].vad_scores))
    /\ tasks' = [tasks EXCEPT ![i].status = "posted"]
    /\ UNCHANGED <<gallery_items, now, last>>

\* A docent task that waits until every task created before it has ended
update_docent_data_async_fifo(i) ==
    LET k == FindByItemId(gallery_items, tasks[i].item_id)
        gallery_item == gallery_items[k]
        send == k # 0 /\ gallery_item.diary_id # NoneValue /\ BoolStr(gallery_item.diary_id)
    IN
    /\ tasks[i].kind = "docent"
    /\ tasks[i].status = "pending"
    /\ \A j \in 1..(i - 1) : tasks[j].status = "done"
    /\ posts' = IF send
                THEN Append(posts, Post(i, gallery_item.diary_id,
                                        gallery_item.emotion_keywords,
                                        gallery_item.artwork_title,
                                        gallery_item.guided_question,
                                        gallery_item.vad_scores))
                ELSE posts
    /\ tasks' = [tasks EXCEPT ![i].status = IF send THEN "posted" ELSE "done"]
    /\ UNCHANGED <<gallery_items, now, last>>

\* _update_docent_data_async up to its await: the document is read now, and a
\* POST is issued only if it exists and has a diary_id
update_docent_data_async(i) ==
    LET k == FindByItemId(gallery_items, tasks[i].item_id)
        gallery_item == gallery_items[k]
        send == k # 0 /\ gallery_item.diary_id # NoneValue /\ BoolStr(gallery_item.diary_id)
    IN
    /\ tasks[i].kind = "docent"
    /\ tasks[i].status = "pending"
    /\ posts' = IF send
                THEN Append(posts, Post(i, gallery_item.diary_id,
                                        gallery_item.emotion_keywords,
                                        gallery_item.artwork_title,
                                        gallery_item.guided_question,
                                        gallery_item.vad_scores))
                ELSE posts
    /\ tasks' = [tasks EXCEPT ![i].status = IF send THEN "posted" ELSE "done"]
    /\ UNCHANGED <<gallery_items, now, last>>

\* A task that starts over when the result recommends a retry
webhook_response_retry(i, outcome) ==
    LET result == WebhookResult(outcome) IN
    /\ tasks[i].status = "posted"
    /\ log' = LogLevel(outcome)
    /\ tasks' = [tasks EXCEPT ![i].status =
                    IF DictGet(result, "retry_recommended", FALSE) THEN "pending"
                    ELSE "done"]
    /\ UNCHANGED <<gallery_items, now, posts, last>>

\* A task that undoes the last insert when its sync failed
webhook_response_rollback(i, outcome) ==
    LET result == WebhookResult(outcome) IN
    /\ tasks[i].status = "posted"
    /\ log' = LogLevel(outcome)
    /\ tasks' = [tasks EXCEPT ![i].status = "done"]
    /\ gallery_items' = IF DictGet(result, "success", FALSE) THEN gallery_items
                        ELSE SubSeq(gallery_items, 1, Len(gallery_items) - 1)
    /\ UNCHANGED <<now, posts, last>>

\* The endpoint answers (or the request fails): send_gallery_item_update
\* logs the outcome and returns its result to the task, which reads
\* result.get('success') to pick a log line of its own and ends. Whatever the
\* result, nothing else is done with it.
webhook_response(i, outcome) ==
    LET result == WebhookResult(outcome) IN
    /\ tasks[i].status = "posted"
    /\ log' = LogLevel(outcome)
    /\ DictGet(result, "success", FALSE) \in BOOLEAN
    /\ tasks' = [tasks EXCEPT ![i].status = "done"]
    /\ UNCHANGED <<gallery_items, now, posts, last>>

\* ---------------------------------------------------------------- the specification
\* An identifier no document has
MissingId == ItemIdOf("nobody", 0)

\* The identifiers callers present: the item_id of a stored document or the
\* string form of a primary key
ItemIdArgs ==
    {gallery_items[i].item_id : i \in DOMAIN gallery_items} \cup {ObjectIdStr(1)}

\* The identifiers get_gallery_item is also called with: the primary key of
\* every stored document, a primary key no document has, and MissingId
LookupArgs ==
    {ObjectIdStr(gallery_items[i]._id) : i \in DOMAIN gallery_items}
        \cup {ObjectIdStr(MaxItems + 1), MissingId}

Init ==
    /\ gallery_items = <<>>
    /\ now = 0
    /\ tasks = <<>>
    /\ posts = <<>>
    /\ last = [op |-> "init"]
    /\ loop \in BOOLEAN
    /\ service \in BOOLEAN
    /\ calls = 0
    /\ log = ""

\* datetime.now(), in seconds counted from the creation of the first record:
\* after it the clock has stood still or moved on since the last reading
ClockReadings ==
    IF gallery_items = <<>>
    THEN {now}
    ELSE {now, IF now < MaxClock THEN now + 1 ELSE now}

\* One manager call by a caller
Call(op) ==
    /\ calls < MaxCalls
    /\ calls' = calls + 1
    /\ op
    /\ UNCHANGED <<loop, service, log>>

CreateRecord ==
    \E a \in CreateArgs, t \in ClockReadings :
        Call(create_gallery_item(a.user_id, a.emotion_keywords, a.vad_scores,
                                 a.diary_id, service, t))

CompleteTitle ==
    \E item_id \in ItemIdArgs, a \in TitleArgs :
        Call(complete_artwork_title(item_id, a.artwork_title, a.guided_question,
                                    service))

CompleteReview ==
    \E item_id \in ItemIdArgs, docent_message \in DocentMessages :
        Call(add_docent_message(item_id, docent_message, service))

GetRecord ==
    \E item_id \in ItemIdArgs \cup LookupArgs : Call(get_gallery_item(item_id))

RunTask ==
    /\ \E i \in DOMAIN tasks : update_emotion_data_async(i) \/ update_docent_data_async(i)
    /\ UNCHANGED <<loop, service, calls, log>>

Respond ==
    /\ \E i \in DOMAIN tasks, outcome \in Outcomes : webhook_response(i, outcome)
    /\ UNCHANGED <<loop, service, calls>>

Next ==
    \/ CreateRecord
    \/ CompleteTitle
    \/ CompleteReview
    \/ GetRecord
    \/ RunTask
    \/ Respond

Spec == Init /\ [][Next]_vars

\* ---------------------------------------------------------------- GalleryItem objects
\* The keyword arguments GalleryItem objects are constructed with
ItemKwargs ==
    {[item_id |-> ObjectIdStr(1), user_id |-> "u1", diary_text |-> "diary",
      emotion_keywords |-> <<"calm">>, vad_scores |-> <<2, -1, 5>>,
      reflection_prompt |-> "prompt", reflection_image_path |-> path,
      artwork_title |-> a.artwork_title, docent_message |-> docent_message,
      message_reactions |-> <<>>, guided_question |-> a.guided_question,
      created_date |-> 0, coping_style |-> "balanced", diary_id |-> diary_id,
      gpt_prompt_tokens |-> 0, gpt_docent_tokens |-> DocentTokens(docent_message)] :
        path \in {<<>>, ReflectionPath("u1", 0)}, a \in TitleArgs,
        docent_message \in DocentMessages, diary_id \in {NoneValue, "d1"}}

InitItem ==
    /\ gallery_items = <<>>
    /\ now = 0
    /\ tasks = <<>>
    /\ posts = <<>>
    /\ \E kw \in ItemKwargs : last = [op |-> "GalleryItem", self |-> GalleryItem(kw)]
    /\ loop = TRUE
    /\ service = FALSE
    /\ calls = 0
    /\ log = ""

\* item.get_completion_status()
GetCompletionStatus ==
    /\ last' = [op |-> "get_completion_status", self |-> last.self,
                ret |-> get_completion_status(last.self)]
    /\ UNCHANGED <<gallery_items, now, tasks, posts, loop, service, calls, log>>

\* item.get_next_step()
GetNextStep ==
    /\ last' = [op |-> "get_next_step", self |-> last.self,
                ret |-> get_next_step(last.self)]
    /\ UNCHANGED <<gallery_items, now, tasks, posts, loop, service, calls, log>>

NextItem ==
    \/ GetCompletionStatus
    \/ GetNextStep

SpecItem == InitItem /\ [][NextItem]_vars

\* ---------------------------------------------------------------- the webhook service alone
\* The arguments send_gallery_item_update is called with
WebhookArgs ==
    [diary_id : {"d1"}, emotion_keywords : {<<>>, <<"calm", "tired">>},
     artwork_title : {"", "Dusk"}, guided_question : {"", "What made this moment calm?"},
     vad_scores : {<<>>, <<2, -1, 5>>}, user_id : {NoneValue, "", "u1"}]

InitWebhook ==
    /\ gallery_items = <<>>
    /\ now \in 0..MaxClock
    /\ tasks = <<>>
    /\ posts = <<>>
    /\ \E a \in WebhookArgs : last = [op |-> "EmoseumWebhookService", args |-> a]
    /\ loop = TRUE
    /\ service = TRUE
    /\ calls = 0
    /\ log = ""

\* await service.send_gallery_item_update(...): the payload is built and sent
\* in one POST; whatever the endpoint answers, and when the request times out
\* or fails, a line is logged and a result dict is returned. Every except
\* clause returns, so no exception leaves the call.
SendGalleryItemUpdate ==
    /\ calls < MaxCalls
    /\ calls' = calls + 1
    /\ \E outcome \in Outcomes :
          LET payload == WebhookPayload(last.args.diary_id,
                                        last.args.emotion_keywords,
                                        last.args.artwork_title,
                                        last.args.guided_question,
                                        last.args.vad_scores,
                                        last.args.user_id, now)
          IN
          /\ posts' = Append(posts, [task |-> 0, args |-> last.args, payload |-> payload])
          /\ log' = LogLevel(outcome)
          /\ last' = [op |-> "send_gallery_item_update", args |-> last.args,
                      outcome |-> outcome, raised |-> FALSE,
                      ret |-> WebhookResult(outcome)]
    /\ UNCHANGED <<gallery_items, now, tasks, loop, service>>

SpecWebhook == InitWebhook /\ [][SendGalleryItemUpdate]_vars

\* ---------------------------------------------------------------- a user's gallery
\* A collection as creations leave it: at each second from 1 to MaxSeconds one
\* of the users, or nobody, created a document
StoreOf(owner) ==
    LET store[t \in 0..MaxSeconds] ==
            IF t = 0 THEN <<>>
            ELSE IF owner[t] = NoneValue THEN store[t - 1]
            ELSE Append(store[t - 1],
                        ItemDoc(Len(store[t - 1]) + 1, owner[t], <<"calm">>,
                                <<2, -1, 5>>, NoneValue, t))
    IN store[MaxSeconds]

\* The dates callers filter by
DateArgs == {NoDate, DateStr(2), DateStr(4)}

InitGallery ==
    /\ \E owner \in [1..MaxSeconds -> UserIds \cup {NoneValue}] :
          gallery_items = StoreOf(owner)
    /\ now = MaxSeconds
    /\ tasks = <<>>
    /\ posts = <<>>
    /\ last = [op |-> "GalleryManager"]
    /\ loop = TRUE
    /\ service = FALSE
    /\ calls = 0
    /\ log = ""

\* manager.get_user_gallery(user_id, limit, offset, date_from, date_to), once
\* on each collection: the query changes nothing a second one could see
GetUserGallery ==
    /\ last.op = "GalleryManager"
    /\ \E user_id \in UserIds, limit \in 1..MaxLimit, offset \in 0..MaxOffset,
          date_from \in DateArgs, date_to \in DateArgs :
          get_user_gallery(user_id, limit, offset, date_from, date_to)
    /\ UNCHANGED <<loop, service, calls, log>>

SpecGallery == InitGallery /\ [][GetUserGallery]_vars

\* ---------------------------------------------------------------- creation alone
\* The vad_scores callers pass: a tuple of any length up to MaxVadLen
VadArgs == {[k \in 1..n |-> k] : n \in 0..MaxVadLen}

\* A manager over an empty collection or over one that holds a document
InitCreate ==
    /\ gallery_items \in {<<>>, <<ItemDoc(1, "u1", <<"calm">>, <<2, -1, 5>>, "d1", 0)>>}
    /\ now = 0
    /\ tasks = <<>>
    /\ posts = <<>>
    /\ last = [op |-> "GalleryManager"]
    /\ loop \in BOOLEAN
    /\ service \in BOOLEAN
    /\ calls = 0
    /\ log = ""

\* manager.create_gallery_item(...), once, with vad_scores of any length
CreateGalleryItem ==
    /\ last.op = "GalleryManager"
    /\ \E user_id \in UserIds, vad_scores \in VadArgs, diary_id \in {NoneValue, "d1"},
          t \in ClockReadings :
          Call(create_gallery_item(user_id, <<"calm">>, vad_scores, diary_id, service, t))

SpecCreate == InitCreate /\ [][CreateGalleryItem]_vars

\* ---------------------------------------------------------------- reviewed records
\* The documents of records that went through every stage: created, given a
\* title by complete_artwork_title and a message by add_docent_message
ReviewedDocs ==
    {[ItemDoc(1, "u1", <<"calm">>, <<2, -1, 5>>, diary_id, 0)
         EXCEPT !.artwork_title = a.artwork_title,
                !.guided_question = a.guided_question,
                !.docent_message = docent_message,
                !.gpt_docent_tokens = DocentTokens(docent_message)] :
        a \in {x \in TitleArgs : BoolStr(x.artwork_title)},
        docent_message \in {m \in DocentMessages : BoolDict(m)},
        diary_id \in {NoneValue, "d1"}}

\* A manager over a collection that holds one reviewed record
InitReviewed ==
    /\ \E doc \in ReviewedDocs : gallery_items = <<doc>>
    /\ now = 0
    /\ tasks = <<>>
    /\ posts = <<>>
    /\ last = [op |-> "GalleryManager"]
    /\ loop \in BOOLEAN
    /\ service \in BOOLEAN
    /\ calls = 0
    /\ log = ""

\* Titles are completed again on the reviewed record
SpecReviewed == InitReviewed /\ [][CompleteTitle]_vars

\* ---------------------------------------------------------------- properties
\* The step taken is a manager call of operation op
IsCall(op) == calls' = calls + 1 /\ last'.op = op

\* The next step of a stored document, as a caller reads it
NextStepOf(doc) == get_next_step(doc_to_gallery_item(doc))

\* The position of a step in the order reflection, title, review, completed
StepRank(step) ==
    CASE step = "reflection" -> 0
      [] step = "artwork_title" -> 1
      [] step = "docent_message" -> 2
      [] step = "completed" -> 3

\* C1: in every reachable state each stored document with a docent message has
\* a title, and each with a title has a reflection image.
C1_StageOrdering ==
    \A i \in DOMAIN gallery_items :
        /\ BoolDict(gallery_items[i].docent_message) => BoolStr(gallery_items[i].artwork_title)
        /\ BoolStr(gallery_items[i].artwork_title) => BoolList(gallery_items[i].reflection_image_path)

\* C2: no step moves a stored document's next step backward in the order
\* title, review, completed; a completed document stays completed.
C2_NeverBackward ==
    [][\A i \in DOMAIN gallery_items :
          StepRank(NextStepOf(gallery_items'[i])) >= StepRank(NextStepOf(gallery_items[i]))]_vars

\* C3: every document create_gallery_item inserts has a reflection image, no
\* title and no docent message, so its next step is the title, and the
\* identifier computed for the caller is the document's item_id.
C3_CreatedAwaitsTitle ==
    [][IsCall("create_gallery_item") /\ Len(gallery_items') > Len(gallery_items) =>
          LET doc == gallery_items'[Len(gallery_items')] IN
          /\ Len(gallery_items') = Len(gallery_items) + 1
          /\ BoolList(doc.reflection_image_path)
          /\ doc.artwork_title = ""
          /\ doc.docent_message = <<>>
          /\ NextStepOf(doc) = "artwork_title"
          /\ doc.item_id = last'.ret]_vars

C3_Witness ==
    /\ last.op = "create_gallery_item"
    /\ ~last.raised
    /\ Len(gallery_items) = 2
    /\ gallery_items[2].item_id = last.ret
    /\ NextStepOf(gallery_items[2]) = "artwork_title"

\* C4: get_next_step is decided by the emptiness of the reflection image, the
\* title and the docent message alone, in that order, and leaves the object as
\* it was.
C4_NextStepByPresence ==
    [][last'.op = "get_next_step" =>
          /\ last'.self = last.self
          /\ last'.ret = IF last.self.reflection_image_path = <<>> THEN "reflection"
                         ELSE IF last.self.artwork_title = "" THEN "artwork_title"
                         ELSE IF last.self.docent_message = <<>> THEN "docent_message"
                         ELSE "completed"]_vars

C4_Witness ==
    /\ last.op = "get_next_step"
    /\ last.ret = "reflection"
    /\ last.self.artwork_title # ""
    /\ last.self.docent_message # <<>>

\* C5: a non-empty title on a freshly created document makes
\* complete_artwork_title return True and the next step the docent message; a
\* non-empty docent message on a titled document without one makes
\* add_docent_message return True and the next step completed.
C5_NormalPath ==
    [][\A i \in DOMAIN gallery_items :
          LET doc == gallery_items[i] IN
          /\ ( /\ IsCall("complete_artwork_title")
               /\ last'.item_id = doc.item_id
               /\ last'.artwork_title # ""
               /\ NextStepOf(doc) = "artwork_title"
               /\ doc.docent_message = <<>> )
             => /\ last'.ret = TRUE
                /\ NextStepOf(gallery_items'[i]) = "docent_message"
          /\ ( /\ IsCall("add_docent_message")
               /\ last'.item_id = doc.item_id
               /\ last'.docent_message # <<>>
               /\ NextStepOf(doc) = "docent_message" )
             => /\ last'.ret = TRUE
                /\ NextStepOf(gallery_items'[i]) = "completed"]_vars

\* C6: a complete_artwork_title that returns True changes one document, and in
\* it only artwork_title and guided_question, to the values given; a
\* get_gallery_item of the same identifier right after it returns them, with
\* the docent message the document had.
C6_TitleFrame ==
    [][/\ IsCall("complete_artwork_title") /\ last'.ret = TRUE =>
            \E i \in DOMAIN gallery_items :
                /\ gallery_items[i].item_id = last'.item_id
                /\ gallery_items' =
                     [gallery_items EXCEPT
                        ![i] = [@ EXCEPT !.artwork_title = last'.artwork_title,
                                         !.guided_question = last'.guided_question]]
       /\ ( /\ last.op = "complete_artwork_title" /\ last.ret = TRUE
            /\ IsCall("get_gallery_item")
            /\ last'.item_id = last.item_id )
          => /\ last'.found
             /\ last'.ret.artwork_title = last.artwork_title
             /\ last'.ret.guided_question = last.guided_question
             /\ last'.ret.docent_message =
                  gallery_items[FindByItemId(gallery_items, last.item_id)].docent_message]_vars

C6_Witness ==
    /\ last.op = "get_gallery_item"
    /\ last.found
    /\ last.ret.artwork_title = "Quiet Morning"
    /\ last.ret.guided_question = "What made this moment calm?"
    /\ last.ret.docent_message = <<>>
    /\ last.ret.user_id = "u1"

\* C7: complete_artwork_title returns False and changes no document when no
\* document has the identifier and when the document already holds the given
\* title and guided question; it returns True only if a document changed.
C7_TitleNoOp ==
    [][IsCall("complete_artwork_title") =>
          LET i == FindByItemId(gallery_items, last'.item_id) IN
          /\ i = 0 => last'.ret = FALSE /\ gallery_items' = gallery_items
          /\ ( /\ i # 0
               /\ gallery_items[i].artwork_title = last'.artwork_title
               /\ gallery_items[i].guided_question = last'.guided_question )
             => last'.ret = FALSE /\ gallery_items' = gallery_items
          /\ last'.ret = TRUE => gallery_items' # gallery_items]_vars

C7_Witness ==
    /\ last.op = "complete_artwork_title"
    /\ last.ret = FALSE
    /\ last.artwork_title = "Quiet Morning"
    /\ \E i \in DOMAIN gallery_items :
          /\ gallery_items[i].item_id = last.item_id
          /\ gallery_items[i].artwork_title = last.artwork_title
          /\ gallery_items[i].guided_question = last.guided_question

\* C8: add_docent_message with a non-empty message for a stored document whose
\* title is empty, and which has no docent message yet, returns True and stores
\* the message.
C8_ReviewWithoutTitle ==
    [][\A i \in DOMAIN gallery_items :
          ( /\ IsCall("add_docent_message")
            /\ last'.item_id = gallery_items[i].item_id
            /\ last'.docent_message # <<>>
            /\ gallery_items[i].artwork_title = ""
            /\ gallery_items[i].docent_message = <<>> )
          => /\ last'.ret = TRUE
             /\ gallery_items'[i].docent_message = last'.docent_message]_vars

\* The token count of a docent message: metadata.token_usage.total_tokens, and
\* 0 when metadata, token_usage or total_tokens is missing
TotalTokensOrZero(m) ==
    IF "metadata" \notin DOMAIN m THEN 0
    ELSE IF "token_usage" \notin DOMAIN m.metadata THEN 0
    ELSE IF "total_tokens" \notin DOMAIN m.metadata.token_usage THEN 0
    ELSE m.metadata.token_usage.total_tokens

\* C9: an add_docent_message that returns True changes one document, and in it
\* only docent_message, to the message given, and gpt_docent_tokens, to the
\* message's metadata.token_usage.total_tokens or 0 when that is absent.
C9_ReviewTokens ==
    [][IsCall("add_docent_message") /\ last'.ret = TRUE =>
          \E i \in DOMAIN gallery_items :
              /\ gallery_items[i].item_id = last'.item_id
              /\ gallery_items' =
                   [gallery_items EXCEPT
                      ![i] = [@ EXCEPT !.docent_message = last'.docent_message,
                                       !.gpt_docent_tokens =
                                            TotalTokensOrZero(last'.docent_message)]]]_vars

C9_Witness ==
    /\ last.op = "add_docent_message"
    /\ last.ret = TRUE
    /\ "metadata" \in DOMAIN last.docent_message
    /\ \E i \in DOMAIN gallery_items :
          /\ gallery_items[i].item_id = last.item_id
          /\ gallery_items[i].docent_message = last.docent_message
          /\ gallery_items[i].gpt_docent_tokens = 42
          /\ gallery_items[i].artwork_title = "Quiet Morning"

\* C10: an add_docent_message that returns True with a service creates exactly
\* one task, pending, for its item_id; when a docent task runs and its document
\* has a diary_id, it issues exactly one POST, keyed by that diary_id, with the
\* emotion keywords, title, guided question and VAD scores the document holds
\* at that moment, each non-empty one in the payload.
C10_ReviewSync ==
    [][/\ IsCall("add_docent_message") /\ last'.ret = TRUE /\ last'.service =>
            /\ Len(tasks') = Len(tasks) + 1
            /\ SubSeq(tasks', 1, Len(tasks)) = tasks
            /\ tasks'[Len(tasks')].kind = "docent"
            /\ tasks'[Len(tasks')].status = "pending"
            /\ tasks'[Len(tasks')].item_id = last'.item_id
       /\ \A i \in DOMAIN tasks :
            ( /\ tasks[i].kind = "docent"
              /\ tasks[i].status = "pending"
              /\ tasks'[i].status # "pending" )
            => LET k == FindByItemId(gallery_items, tasks[i].item_id) IN
               IF k # 0 /\ gallery_items[k].diary_id \notin {NoneValue, ""}
               THEN /\ Len(posts') = Len(posts) + 1
                    /\ SubSeq(posts', 1, Len(posts)) = posts
                    /\ LET post == posts'[Len(posts')]
                           doc == gallery_items[k]
                       IN
                       /\ post.task = i
                       /\ post.args = [diary_id |-> doc.diary_id,
                                       emotion_keywords |-> doc.emotion_keywords,
                                       artwork_title |-> doc.artwork_title,
                                       guided_question |-> doc.guided_question,
                                       vad_scores |-> doc.vad_scores]
                       /\ post.payload.diary_id = doc.diary_id
                       /\ doc.emotion_keywords # <<>> => post.payload.keywords = doc.emotion_keywords
                       /\ doc.artwork_title # "" => post.payload.title = doc.artwork_title
                       /\ doc.guided_question # "" =>
                              post.payload.guided_question = doc.guided_question
                       /\ doc.vad_scores # <<>> => post.payload.vad_scores = doc.vad_scores
               ELSE posts' = posts]_vars

\* A title set after the docent message, before the task ran, is in the POST
C10_Witness ==
    /\ last.op = "complete_artwork_title"
    /\ last.ret = TRUE
    /\ \E n \in DOMAIN posts :
          /\ tasks[posts[n].task].kind = "docent"
          /\ posts[n].payload.diary_id = "d1"
          /\ posts[n].payload.title = last.artwork_title
          /\ posts[n].payload.keywords = <<"calm", "tired">>

\* The step taken is a step of a detached task
IsTaskStep == calls' = calls /\ tasks' # tasks

\* C11: a create_gallery_item given a service and a diary_id, whose insert
\* succeeds, returns the new item_id without raising and creates exactly one
\* task, pending, holding that diary_id and the emotion keywords and VAD scores
\* it was given, with no POST issued yet; when the task runs, its one POST
\* carries them; no task step changes what the call returned; without a
\* diary_id no task is created.
C11_CreateSync ==
    [][/\ ( /\ IsCall("create_gallery_item")
            /\ Len(gallery_items') = Len(gallery_items) + 1
            /\ last'.service
            /\ last'.diary_id # NoneValue )
          => /\ ~last'.raised
             /\ last'.ret = gallery_items'[Len(gallery_items')].item_id
             /\ tasks' = Append(tasks, [kind |-> "emotion", status |-> "pending",
                                        diary_id |-> last'.diary_id,
                                        emotion_keywords |-> last'.emotion_keywords,
                                        vad_scores |-> last'.vad_scores])
             /\ posts' = posts
       /\ IsCall("create_gallery_item") /\ last'.diary_id = NoneValue => tasks' = tasks
       /\ IsTaskStep => last' = last
       /\ \A i \in DOMAIN tasks :
            ( /\ tasks[i].kind = "emotion"
              /\ tasks[i].status = "pending"
              /\ tasks'[i].status # "pending" )
            => /\ Len(posts') = Len(posts) + 1
               /\ SubSeq(posts', 1, Len(posts)) = posts
               /\ LET post == posts'[Len(posts')] IN
                  /\ post.task = i
                  /\ post.payload.diary_id = tasks[i].diary_id
                  /\ tasks[i].emotion_keywords # <<>> =>
                         post.payload.keywords = tasks[i].emotion_keywords
                  /\ post.payload.vad_scores = tasks[i].vad_scores]_vars

\* C12: complete_artwork_title, whatever it returns and whether or not it is
\* given the service, leaves the tasks and the POSTs issued as they were; and
\* every POST that carries a title was issued by a task add_docent_message
\* created.
C12_TitleNoSync ==
    [][/\ IsCall("complete_artwork_title") => tasks' = tasks /\ posts' = posts
       /\ \A n \in DOMAIN posts' :
            "title" \in DOMAIN posts'[n].payload =>
                tasks'[posts'[n].task].kind = "docent"]_vars

\* A title accepted from a caller that passes the service, inside a running
\* loop, and later pushed by the docent task alone
C12_Witness ==
    /\ service /\ loop
    /\ Len(tasks) = 2
    /\ tasks[1].kind = "emotion" /\ tasks[2].kind = "docent"
    /\ \E i \in DOMAIN gallery_items : gallery_items[i].artwork_title = "Quiet Morning"
    /\ \E n \in DOMAIN posts :
          posts[n].task = 2 /\ posts[n].payload.title = "Quiet Morning"

C14_ResultByOutcome ==
    last.op = "send_gallery_item_update" =>
        /\ ~last.raised
        /\ "success" \in DOMAIN last.ret
        /\ last.ret.success = (last.outcome = "200_json")
        /\ last.outcome # "200_json" =>
               /\ "retry_recommended" \in DOMAIN last.ret
               /\ last.ret.retry_recommended = TRUE

C14_Witness ==
    /\ last.op = "send_gallery_item_update"
    /\ last.outcome = "200_undecodable"
    /\ last.ret.success = FALSE
    /\ last.ret.retry_recommended = TRUE

\* C15: every POST was issued by a task created by a manager call, no task has
\* issued two, and a task that has issued one is never pending again: there
\* are at most as many POSTs as tasks.
C15_NoRetry ==
    /\ Len(posts) <= Len(tasks)
    /\ \A n \in DOMAIN posts :
          /\ posts[n].task \in DOMAIN tasks
          /\ tasks[posts[n].task].status \in {"posted", "done"}
    /\ \A m, n \in DOMAIN posts : posts[m].task = posts[n].task => m = n

\* Both tasks have ended, the last sync in failure, and each has issued the
\* one POST it will ever issue
C15_Witness ==
    /\ log = "error"
    /\ Len(tasks) = 2
    /\ Len(posts) = 2
    /\ \A i \in DOMAIN tasks : tasks[i].status = "done"
    /\ ~ENABLED RunTask
    /\ ~ENABLED Respond

\* C16: the payload sent always has diary_id and updated_at; it has keywords,
\* title, guided_question and vad_scores exactly when the argument given is
\* non-empty, with the argument's value; and each call issues one POST.
C16_PayloadFields ==
    /\ last.op = "send_gallery_item_update" =>
          LET payload == posts[Len(posts)].payload
              args == last.args
          IN
          /\ posts[Len(posts)].args = args
          /\ payload.diary_id = args.diary_id
          /\ payload.updated_at = now
          /\ "keywords" \in DOMAIN payload <=> args.emotion_keywords # <<>>
          /\ "title" \in DOMAIN payload <=> args.artwork_title # ""
          /\ "guided_question" \in DOMAIN payload <=> args.guided_question # ""
          /\ "vad_scores" \in DOMAIN payload <=> args.vad_scores # <<>>
          /\ "keywords" \in DOMAIN payload => payload.keywords = args.emotion_keywords
          /\ "title" \in DOMAIN payload => payload.title = args.artwork_title
          /\ "guided_question" \in DOMAIN payload =>
                 payload.guided_question = args.guided_question
          /\ "vad_scores" \in DOMAIN payload => payload.vad_scores = args.vad_scores
    /\ last.op \in {"EmoseumWebhookService", "send_gallery_item_update"} =>
          Len(posts) = calls

C16_Witness ==
    /\ last.op = "send_gallery_item_update"
    /\ last.args.artwork_title = ""
    /\ last.args.vad_scores = <<>>
    /\ last.args.emotion_keywords = <<"calm", "tired">>
    /\ DOMAIN posts[Len(posts)].payload = {"diary_id", "updated_at", "keywords"}
    /\ Len(posts) = 2
    /\ calls = 2

\* C17: nothing orders the syncs: in every reachable state each pending task
\* can issue its POST, and each posted task can end, whatever the state of the
\* tasks created before it. So the sync of a docent message can reach the
\* endpoint before the sync of the create_gallery_item of the same diary_id
\* while both are in flight.
C17_NoSyncOrdering ==
    \A i \in DOMAIN tasks :
        /\ tasks[i].status = "pending" =>
               ENABLED (update_emotion_data_async(i) \/ update_docent_data_async(i))
        /\ tasks[i].status = "posted" =>
               ENABLED (\E outcome \in Outcomes : webhook_response(i, outcome))

\* Both syncs of diary d1 are in flight, and the POST of the docent task,
\* created second, was issued first
C17_Witness ==
    /\ Len(tasks) = 2
    /\ tasks[1].kind = "emotion" /\ tasks[1].status = "posted"
    /\ tasks[2].kind = "docent" /\ tasks[2].status = "posted"
    /\ Len(posts) = 2
    /\ posts[1].task = 2 /\ posts[2].task = 1
    /\ posts[1].payload.diary_id = "d1"
    /\ posts[2].payload.diary_id = "d1"

\* The stored documents an identifier names, by primary key or by item_id
NamedBy(item_id) ==
    {i \in DOMAIN gallery_items :
        \/ ObjectIdStr(gallery_items[i]._id) = item_id
        \/ gallery_items[i].item_id = item_id}

\* C18: get_gallery_item called with a stored document's primary key, or with
\* its item_id, returns that document's fields; two calls in a row, one with
\* each identifier of the same document, return equal objects; called with an
\* identifier that names no document it returns None; it never raises and
\* changes nothing.
C18_DualKeyLookup ==
    [][IsCall("get_gallery_item") =>
          /\ ~last'.raised
          /\ gallery_items' = gallery_items /\ tasks' = tasks /\ posts' = posts
          /\ NamedBy(last'.item_id) = {} => ~last'.found /\ last'.ret = <<>>
          /\ \A i \in NamedBy(last'.item_id) :
                LET doc == gallery_items[i] IN
                /\ last'.found
                /\ last'.ret.item_id = ObjectIdStr(doc._id)
                /\ \A k \in DOMAIN doc \ {"_id", "item_id"} : last'.ret[k] = doc[k]
                /\ ( /\ last.op = "get_gallery_item"
                     /\ last.item_id # last'.item_id
                     /\ i \in NamedBy(last.item_id) )
                   => last'.ret = last.ret]_vars

\* The second document, looked up by its item_id and returned under its
\* primary key
C18_Witness ==
    /\ last.op = "get_gallery_item"
    /\ last.found
    /\ Len(gallery_items) = 2
    /\ last.item_id = gallery_items[2].item_id
    /\ last.ret.item_id = ObjectIdStr(2)
    /\ calls = 3

\* The documents of last.user_id whose created_date is in the range asked for
InRange ==
    {i \in DOMAIN gallery_items :
        /\ gallery_items[i].user_id = last.user_id
        /\ last.date_from # NoDate => gallery_items[i].created_date >= last.date_from[1]
        /\ last.date_to # NoDate => gallery_items[i].created_date <= last.date_to[1]}

\* The rank of document i among them, 1 for the newest
RankNewest(i) ==
    1 + Cardinality({j \in InRange :
                        gallery_items[j].created_date > gallery_items[i].created_date})

\* C19: get_user_gallery with limit >= 1 and offset >= 0 returns only
\* documents of the user asked for, newest first, and exactly those ranked
\* offset + 1 to offset + limit by creation time among the user's documents
\* that lie in the inclusive date range, each at its place.
C19_GalleryPage ==
    last.op = "get_user_gallery" =>
        LET page == {i \in InRange : /\ RankNewest(i) > last.offset
                                     /\ RankNewest(i) <= last.offset + last.limit}
        IN
        /\ \A n \in DOMAIN last.ret : last.ret[n].user_id = last.user_id
        /\ \A n \in 1..(Len(last.ret) - 1) :
              last.ret[n].created_date > last.ret[n + 1].created_date
        /\ Len(last.ret) = Cardinality(page)
        /\ \A i \in page :
              last.ret[RankNewest(i) - last.offset].item_id =
                  ObjectIdStr(gallery_items[i]._id)

\* limit 2 and offset 1 over five documents of one user: the 2nd and the 3rd
\* newest, created at seconds 4 and 3
C19_Witness ==
    /\ last.op = "get_user_gallery"
    /\ last.user_id = "u1"
    /\ last.limit = 2 /\ last.offset = 1
    /\ last.date_from = NoDate /\ last.date_to = NoDate
    /\ Len(gallery_items) = 5
    /\ \A i \in DOMAIN gallery_items : gallery_items[i].user_id = "u1"
    /\ Len(last.ret) = 2
    /\ last.ret[1].created_date = 4
    /\ last.ret[2].created_date = 3

\* C20: in every reachable state the stored documents have pairwise different
\* item_ids; no step changes the item_id or the primary key of a stored
\* document, or removes one; and a create_gallery_item for a user who already
\* has a document of the same second raises and stores nothing.
C20_UniqueImmutableId ==
    /\ [](\A i, j \in DOMAIN gallery_items :
            gallery_items[i].item_id = gallery_items[j].item_id => i = j)
    /\ [][/\ Len(gallery_items') >= Len(gallery_items)
          /\ \A i \in DOMAIN gallery_items :
               /\ gallery_items'[i].item_id = gallery_items[i].item_id
               /\ gallery_items'[i]._id = gallery_items[i]._id
          /\ ( /\ IsCall("create_gallery_item")
               /\ \E k \in DOMAIN gallery_items :
                     gallery_items[k].item_id = ItemIdOf(last'.user_id, Strftime(now')) )
             => last'.raised /\ gallery_items' = gallery_items]_vars

\* A second create_gallery_item for u1 within the second of the first was
\* refused by the index: one document has the identifier
C20_Witness ==
    /\ last.op = "create_gallery_item"
    /\ last.raised
    /\ ~service
    /\ Cardinality({i \in DOMAIN gallery_items :
                        gallery_items[i].item_id = ItemIdOf(last.user_id, now)}) = 1
    /\ Len(gallery_items) = 1

\* C21: a create_gallery_item called with vad_scores that do not have exactly 3
\* elements raises and stores nothing, and every stored document's vad_scores
\* have exactly 3 elements.
C21_VadValidated ==
    /\ [][( /\ IsCall("create_gallery_item")
            /\ Len(last'.vad_scores) # 3 ) =>
               /\ last'.raised
               /\ gallery_items' = gallery_items]_vars
    /\ [](\A i \in DOMAIN gallery_items : Len(gallery_items[i].vad_scores) = 3)

\* C22: complete_artwork_title on a document that has a docent message, with a
\* title other than the stored one, returns True and sets artwork_title and
\* guided_question to the values given; the docent message and every other
\* field stay as they were.
C22_TitleOverwrite ==
    [][IsCall("complete_artwork_title") =>
         \A i \in DOMAIN gallery_items :
            ( /\ gallery_items[i].item_id = last'.item_id
              /\ BoolDict(gallery_items[i].docent_message)
              /\ gallery_items[i].artwork_title # last'.artwork_title ) =>
                /\ last'.ret = TRUE
                /\ gallery_items' =
                      [gallery_items EXCEPT
                          ![i].artwork_title = last'.artwork_title,
                          ![i].guided_question = last'.guided_question]
                /\ gallery_items'[i].docent_message = gallery_items[i].docent_message]_vars

\* The first call on a reviewed record returned True and left the title
\* "Dusk": the record held the other title, "Quiet Morning", before it
C22_Witness ==
    /\ calls = 1
    /\ last.op = "complete_artwork_title"
    /\ last.ret = TRUE
    /\ last.artwork_title = "Dusk"
    /\ gallery_items[1].item_id = last.item_id
    /\ gallery_items[1].artwork_title = "Dusk"
    /\ gallery_items[1].guided_question = ""
    /\ BoolDict(gallery_items[1].docent_message)

\* C23: what a manager call reports agrees with what it stored, whether or not
\* the detached task could be started: an add_docent_message that changed the
\* document returns True, and a create_gallery_item that inserted a document
\* raises nothing and returns the item_id of that document.
C23_OutcomeAgrees ==
    [][/\ ( /\ IsCall("add_docent_message")
            /\ gallery_items' # gallery_items ) => last'.ret = TRUE
       /\ ( /\ IsCall("create_gallery_item")
            /\ Len(gallery_items') = Len(gallery_items) + 1 ) =>
               /\ ~last'.raised
               /\ last'.ret = gallery_items'[Len(gallery_items')].item_id]_vars

\* C24: the completed flag get_completion_status returns for an object is true
\* exactly when get_next_step of that object is "completed"; an object with a
\* docent message and an empty title is not reported as completed.
C24_CompletedIffLastStep ==
    last.op = "get_completion_status" =>
        /\ last.ret.completed = (get_next_step(last.self) = "completed")
        /\ ( /\ BoolDict(last.self.docent_message)
             /\ ~BoolStr(last.self.artwork_title) ) => ~last.ret.completed

\* C25: identifiers round-trip through the manager. The object
\* get_gallery_item returns for the item_id create_gallery_item gave a document
\* carries that item_id; and a complete_artwork_title or add_docent_message
\* called with the item_id of the object get_gallery_item just returned writes
\* its values to the document that object was made from.
C25_IdRoundTrip ==
    [][/\ ( /\ IsCall("get_gallery_item")
            /\ \E i \in DOMAIN gallery_items : gallery_items[i].item_id = last'.item_id ) =>
               /\ last'.found
               /\ last'.ret.item_id = last'.item_id
       /\ ( /\ last.op = "get_gallery_item"
            /\ last.found
            /\ calls' = calls + 1
            /\ last'.op \in {"complete_artwork_title", "add_docent_message"}
            /\ last'.item_id = last.ret.item_id ) =>
               \A i \in NamedBy(last.item_id) :
                  IF last'.op = "complete_artwork_title"
                  THEN /\ gallery_items'[i].artwork_title = last'.artwork_title
                       /\ gallery_items'[i].guided_question = last'.guided_question
                  ELSE gallery_items'[i].docent_message = last'.docent_message]_vars

\* A partial patch applied last-write-wins: the fields of the payload replace
\* those the external system holds, the others stay
Patched(ext, payload) ==
    [k \in DOMAIN ext \cup DOMAIN payload |->
        IF k \in DOMAIN payload THEN payload[k] ELSE ext[k]]

\* What the external system holds once every payload posted has been applied,
\* in the order the POSTs were issued
External ==
    LET applied[n \in 0..Len(posts)] ==
            IF n = 0 THEN <<>> ELSE Patched(applied[n - 1], posts[n].payload)
    IN applied[Len(posts)]

\* One record with a diary_id went through create_gallery_item,
\* complete_artwork_title and add_docent_message, once each and in this order,
\* with non-empty values, the service being passed
NormalPathDone ==
    /\ service
    /\ calls = 3
    /\ Len(gallery_items) = 1
    /\ last.op = "add_docent_message"
    /\ gallery_items[1].item_id = last.item_id
    /\ gallery_items[1].docent_message = last.docent_message
    /\ BoolDict(gallery_items[1].docent_message)
    /\ BoolStr(gallery_items[1].artwork_title)
    /\ BoolStr(gallery_items[1].guided_question)
    /\ BoolList(gallery_items[1].emotion_keywords)
    /\ BoolList(gallery_items[1].vad_scores)
    /\ gallery_items[1].diary_id # NoneValue

\* C26: after create_gallery_item, complete_artwork_title and
\* add_docent_message on one record with a diary_id, once every detached task
\* has ended and the external system has applied every payload posted as a
\* last-write-wins partial patch, it holds the stored record's keywords, title,
\* guided_question and vad_scores, whatever order the POSTs were issued in.
C26_ExternalConverges ==
    ( /\ NormalPathDone
      /\ \A i \in DOMAIN tasks : tasks[i].status = "done" ) =>
        /\ {"keywords", "title", "guided_question", "vad_scores"} \subseteq DOMAIN External
        /\ External.keywords = gallery_items[1].emotion_keywords
        /\ External.title = gallery_items[1].artwork_title
        /\ External.guided_question = gallery_items[1].guided_question
        /\ External.vad_scores = gallery_items[1].vad_scores

\* C27: every POST issued carries the diary_id of a stored document that has
\* one, so none is issued for a record without a diary_id; and an
\* add_docent_message that returns False creates no task and leaves the
\* collection as it was.
C27_NoSyncWithoutLink ==
    /\ [](\A n \in DOMAIN posts :
            /\ posts[n].payload.diary_id # NoneValue
            /\ BoolStr(posts[n].payload.diary_id)
            /\ \E i \in DOMAIN gallery_items :
                  gallery_items[i].diary_id = posts[n].payload.diary_id)
    /\ [][( /\ IsCall("add_docent_message")
            /\ last'.ret = FALSE ) =>
               /\ tasks' = tasks
               /\ gallery_items' = gallery_items]_vars

====
